---- MODULE Spec2Model ----
(***************************************************************************)
(* Model of the key-reference type XpubRef (hd/src/xpubref.rs) and of the  *)
(* PSBT version tag (psbt/src/lib.rs) of descriptor-wallet.                *)
(*                                                                         *)
(* Text is a sequence of one-character strings.  Byte strings are          *)
(* sequences of integers in 0..255.  The conversions of the bitcoin crate  *)
(* that XpubRef calls (hex for Fingerprint and XKeyIdentifier, base58check *)
(* for Xpub) are modelled by what they do to text: hex is modelled in      *)
(* full, base58check as a version prefix, a payload and a checksum symbol. *)
(* The commit and sign modules are only declared in lib.rs; the            *)
(* commit-then-sign protocol at the end of the module follows the          *)
(* specification and has a specification of its own, SpecSigner.           *)
(***************************************************************************)
EXTENDS Integers, Sequences, FiniteSets, TLC

VARIABLES
    call,       \* the last call made on the key-reference / version API
    shown,      \* the XpubRef whose display is the text being parsed, if any
    version,    \* the container's version tag
    dep,        \* signer protocol: input -> output whose commitment its key needs (0: none)
    proof,      \* signer protocol: output -> is its Tweak Proof resolved
    sigs,       \* signer protocol: input -> set of partial signatures
    attempt     \* signer protocol: the last commit/sign attempt and its outcome

vars == <<call, shown, version, dep, proof, sigs, attempt>>
keyVars == <<call, shown, version>>
signVars == <<dep, proof, sigs, attempt>>

-----------------------------------------------------------------------------
(* Bounds *)

\* number of distinct test keys (fingerprints, identifiers, extended keys)
NumKeys == 2
\* number of inputs of the container in the signer protocol
NumInputs == 2
\* number of outputs of the container in the signer protocol
NumOutputs == 1

Keys == 0 .. (NumKeys - 1)

-----------------------------------------------------------------------------
(* Results and options *)

Ok(v) == [kind |-> "Ok", val |-> v]
Err(e) == [kind |-> "Err", err |-> e]
\* a slice whose start lies behind its end aborts the thread
Panic == [kind |-> "Panic"]

Some(v) == [some |-> TRUE, val |-> v]
None == [some |-> FALSE]

IsOk(res) == res.kind = "Ok"

\* mutant of OrElse: the alternative is always taken
OrElseAlways(res, alt) == alt

\* Result::or_else: the alternative is evaluated only on an error
OrElse(res, alt) == IF IsOk(res) THEN res ELSE alt

\* Result::map_err with a closure that ignores the error
MapErr(res, e) == IF IsOk(res) THEN res ELSE Err(e)

-----------------------------------------------------------------------------
(* Hex text of byte arrays: Fingerprint (4 bytes), XKeyIdentifier (20) *)

FingerprintLen == 4
IdentifierLen == 20

HexLower == <<"0", "1", "2", "3", "4", "5", "6", "7", "8", "9",
              "a", "b", "c", "d", "e", "f">>
HexUpper == <<"0", "1", "2", "3", "4", "5", "6", "7", "8", "9",
              "A", "B", "C", "D", "E", "F">>

IsHexChar(c) == \E i \in 1..16 : HexLower[i] = c \/ HexUpper[i] = c
HexVal(c) == (CHOOSE i \in 1..16 : HexLower[i] = c \/ HexUpper[i] = c) - 1

RECURSIVE ToHex(_)
ToHex(bytes) ==
    IF bytes = <<>> THEN <<>>
    ELSE <<HexLower[(Head(bytes) \div 16) + 1], HexLower[(Head(bytes) % 16) + 1]>>
         \o ToHex(Tail(bytes))

\* the bytes of a text of hex digit pairs
HexBytes(t) == [i \in 1 .. (Len(t) \div 2) |->
                   16 * HexVal(t[2 * i - 1]) + HexVal(t[2 * i])]

\* <[u8; n]>::from_hex: exactly 2n hex digits, either case
FromHex(t, n) ==
    IF Len(t) # 2 * n THEN Err("InvalidLength")
    ELSE IF \E i \in 1..Len(t) : ~IsHexChar(t[i]) THEN Err("InvalidChar")
    ELSE Ok(HexBytes(t))

FingerprintFromStr(t) == FromHex(t, FingerprintLen)
XKeyIdentifierFromStr(t) == FromHex(t, IdentifierLen)

\* <[u8; 4]>::try_from(&[u8])
FingerprintTryFrom(bytes) ==
    IF Len(bytes) = FingerprintLen THEN Ok(bytes) ELSE Err("TryFromSliceError")

\* Result::ok
ResultOk(res) == IF IsOk(res) THEN Some(res.val) ELSE None

-----------------------------------------------------------------------------
(* Base58check text of extended public keys *)

Base58 == <<"1", "2", "3", "4", "5", "6", "7", "8", "9", "A", "B", "C",
            "D", "E", "F", "G", "H", "J", "K", "L", "M", "N", "P", "Q",
            "R", "S", "T", "U", "V", "W", "X", "Y", "Z", "a", "b", "c",
            "d", "e", "f", "g", "h", "i", "j", "k", "m", "n", "o", "p",
            "q", "r", "s", "t", "u", "v", "w", "x", "y", "z">>

IsBase58Char(c) == \E i \in 1..58 : Base58[i] = c
Base58Val(c) == (CHOOSE i \in 1..58 : Base58[i] = c) - 1

Networks == {"main", "test"}
Xpubs == [network : Networks, key : Keys]

XpubVersionText(network) ==
    IF network = "main" THEN <<"x", "p", "u", "b">> ELSE <<"t", "p", "u", "b">>

\* length of the text in front of the checksum: version and key
XpubPayloadLen == Len(XpubVersionText("main")) + 1

RECURSIVE WeightedSum(_, _)
WeightedSum(t, i) ==
    IF i > Len(t) THEN 0 ELSE i * (Base58Val(t[i]) + 1) + WeightedSum(t, i + 1)

Checksum(t) == Base58[(WeightedSum(t, 1) % 58) + 1]

\* Display of Xpub: base58check of its encoding
XpubToStr(xpub) ==
    LET payload == XpubVersionText(xpub.network) \o <<Base58[xpub.key + 1]>>
    IN  payload \o <<Checksum(payload)>>

\* Xpub::from_str: base58check decoding, then the length and the version
XpubFromStr(t) ==
    IF \E i \in 1..Len(t) : ~IsBase58Char(t[i]) THEN Err("Base58")
    ELSE IF Len(t) < 1 THEN Err("Base58")
    ELSE LET payload == SubSeq(t, 1, Len(t) - 1)
         IN  IF t[Len(t)] # Checksum(payload) THEN Err("Base58")
             ELSE IF Len(payload) # XpubPayloadLen THEN Err("WrongExtendedKeyLength")
             ELSE IF \A n \in Networks : SubSeq(payload, 1, 4) # XpubVersionText(n)
                  THEN Err("UnknownVersion")
             ELSE Ok([network |-> CHOOSE n \in Networks :
                                     SubSeq(payload, 1, 4) = XpubVersionText(n),
                      key |-> Base58Val(payload[5])])

\* hash160 of the key: a fixed 20-byte digest per key
Hash160(xpub) ==
    [i \in 1..IdentifierLen |->
        (xpub.key * 101 + (IF xpub.network = "main" THEN 0 ELSE 53) + i * 7 + 3) % 256]

\* Xpub::identifier
XpubIdentifier(xpub) == Hash160(xpub)

\* Xpub::fingerprint: the first four bytes of the identifier
XpubFingerprint(xpub) == SubSeq(XpubIdentifier(xpub), 1, FingerprintLen)

-----------------------------------------------------------------------------
(* XpubRef *)

Unknown == [tag |-> "Unknown"]
FromFingerprint(fp) == [tag |-> "Fingerprint", fp |-> fp]
FromXKeyIdentifier(id) == [tag |-> "XKeyIdentifier", id |-> id]
FromXpub(xpub) == [tag |-> "Xpub", xpub |-> xpub]

\* #[default] Unknown
XpubRefDefault == Unknown

\* test values
TestFingerprint(k) == <<(k * 93 + 10) % 256, 0, 171, 255 - k>>
TestIdentifier(k) == [i \in 1..IdentifierLen |-> (k * 57 + i * 13) % 256]

XpubRefs ==
    {Unknown}
    \cup {FromFingerprint(TestFingerprint(k)) : k \in Keys}
    \cup {FromXKeyIdentifier(TestIdentifier(k)) : k \in Keys}
    \cup {FromXpub(x) : x \in Xpubs}

is_some(r) == r # Unknown

\* mutant of fingerprint: no fingerprint out of an identifier
fingerprint_no_identifier(r) ==
    CASE r.tag = "Unknown" -> None
      [] r.tag = "Fingerprint" -> Some(r.fp)
      [] r.tag = "XKeyIdentifier" -> None
      [] r.tag = "Xpub" -> Some(XpubFingerprint(r.xpub))

\* mutant of fingerprint: the slice starts one byte late
fingerprint_shifted(r) ==
    CASE r.tag = "Unknown" -> None
      [] r.tag = "Fingerprint" -> Some(r.fp)
      [] r.tag = "XKeyIdentifier" ->
            ResultOk(FingerprintTryFrom(SubSeq(r.id, 2, FingerprintLen + 1)))
      [] r.tag = "Xpub" -> Some(XpubFingerprint(r.xpub))

fingerprint(r) ==
    CASE r.tag = "Unknown" -> None
      [] r.tag = "Fingerprint" -> Some(r.fp)
      [] r.tag = "XKeyIdentifier" ->
            ResultOk(FingerprintTryFrom(SubSeq(r.id, 1, FingerprintLen)))
      [] r.tag = "Xpub" -> Some(XpubFingerprint(r.xpub))

identifier(r) ==
    CASE r.tag = "Unknown" -> None
      [] r.tag = "Fingerprint" -> None
      [] r.tag = "XKeyIdentifier" -> Some(r.id)
      [] r.tag = "Xpub" -> Some(XpubIdentifier(r.xpub))

xpubkey(r) ==
    CASE r.tag = "Unknown" -> None
      [] r.tag = "Fingerprint" -> None
      [] r.tag = "XKeyIdentifier" -> None
      [] r.tag = "Xpub" -> Some(r.xpub)

\* "{0}": the value's own display
Fmt(r) ==
    CASE r.tag = "Fingerprint" -> ToHex(r.fp)
      [] r.tag = "XKeyIdentifier" -> ToHex(r.id)
      [] r.tag = "Xpub" -> XpubToStr(r.xpub)

\* "{0:#}": the value's own alternate display; hex gets the 0x prefix,
\* base58check text has no alternate form
FmtAlt(r) ==
    CASE r.tag = "Fingerprint" -> <<"0", "x">> \o ToHex(r.fp)
      [] r.tag = "XKeyIdentifier" -> <<"0", "x">> \o ToHex(r.id)
      [] r.tag = "Xpub" -> XpubToStr(r.xpub)

\* mutant of Display: the alternate form carries the frame the parser strips
DisplayAltEquals(r, alt) ==
    IF r.tag = "Unknown" THEN <<>>
    ELSE IF alt THEN <<"=", "[">> \o FmtAlt(r) \o <<"]">>
    ELSE <<"[">> \o Fmt(r) \o <<"]">>

\* #[display("[{0}]", alt = "[{0:#}]")], #[display("")] on Unknown
Display(r, alt) ==
    IF r.tag = "Unknown" THEN <<>>
    ELSE IF alt THEN <<"[">> \o FmtAlt(r) \o <<"]">>
    ELSE <<"[">> \o Fmt(r) \o <<"]">>

StartsWith(s, p) == Len(s) >= Len(p) /\ SubSeq(s, 1, Len(p)) = p

\* &s[from..to] with 0-based bounds: the result, or a panic when from > to.
\* All text of the model is ASCII, so every index is a character boundary.
Slice(s, from, to) ==
    IF from > to \/ to > Len(s) THEN Panic ELSE Ok(SubSeq(s, from + 1, to))

\* mutant of StripFrame: the closing character is kept
StripFrameKeepLast(s) ==
    IF StartsWith(s, <<"=", "[">>) THEN Slice(s, 2, Len(s))
    ELSE IF StartsWith(s, <<"[">>) THEN Slice(s, 1, Len(s))
    ELSE Ok(s)

\* the frame stripping of from_str
StripFrame(s) ==
    IF StartsWith(s, <<"=", "[">>) THEN Slice(s, 2, Len(s) - 1)
    ELSE IF StartsWith(s, <<"[">>) THEN Slice(s, 1, Len(s) - 1)
    ELSE Ok(s)

\* Fingerprint::from_str(s).map(XpubRef::from)
TryFingerprint(t) ==
    LET res == FingerprintFromStr(t)
    IN  IF IsOk(res) THEN Ok(FromFingerprint(res.val)) ELSE res

\* XKeyIdentifier::from_str(s).map(XpubRef::from)
TryXKeyIdentifier(t) ==
    LET res == XKeyIdentifierFromStr(t)
    IN  IF IsOk(res) THEN Ok(FromXKeyIdentifier(res.val)) ELSE res

\* Xpub::from_str(s).map(XpubRef::from)
TryXpub(t) ==
    LET res == XpubFromStr(t)
    IN  IF IsOk(res) THEN Ok(FromXpub(res.val)) ELSE res

\* the chain of attempts of from_str on the stripped text
ParseChain(t) ==
    OrElse(
        MapErr(OrElse(TryFingerprint(t), TryXKeyIdentifier(t)),
               "InvalidDerivationPathFormat"),
        TryXpub(t))

\* XpubRef::from_str
from_str(s) ==
    IF s = <<>> THEN Ok(Unknown)
    ELSE LET stripped == StripFrame(s)
         IN  IF stripped.kind = "Panic" THEN Panic ELSE ParseChain(stripped.val)

-----------------------------------------------------------------------------
(* PsbtVersion *)

PsbtVersion == {"V0", "V2"}

\* #[repr(u32)]: V0 = 0x0, V2 = 0x2
PsbtVersionRepr(v) == CASE v = "V0" -> 0 [] v = "V2" -> 2

\* mutant of PsbtVersionDefault
PsbtVersionDefaultLegacy == "V0"

\* impl Default for PsbtVersion
PsbtVersionDefault == "V2"

\* StrictEncode with repr = u32
PsbtVersionEncode(v) == PsbtVersionRepr(v)

\* StrictDecode with repr = u32: only the declared discriminants decode
PsbtVersionDecode(n) ==
    IF \E v \in PsbtVersion : PsbtVersionRepr(v) = n
    THEN Ok(CHOOSE v \in PsbtVersion : PsbtVersionRepr(v) = n)
    ELSE Err("EnumValueNotKnown")

\* largest 32-bit word offered to the decoder
MaxVersionWord == 3

-----------------------------------------------------------------------------
(* Texts handed to from_str *)

FpHex(k) == ToHex(TestFingerprint(k))
IdHex(k) == ToHex(TestIdentifier(k))

Bodies ==
    {FpHex(k) : k \in Keys}
    \cup {IdHex(k) : k \in Keys}
    \cup {XpubToStr(x) : x \in Xpubs}
    \cup { <<>>,
           <<"A", "B", "C", "D", "E", "F", "0", "1">>,
           SubSeq(FpHex(0), 1, 7),
           <<"g">> \o SubSeq(FpHex(0), 1, 7),
           SubSeq(IdHex(0), 1, 39),
           <<"x", "p", "u", "b", "1", "1">>,
           <<"x", "p", "u", "b">> \o <<Checksum(<<"x", "p", "u", "b">>)>>,
           <<"y", "p", "u", "b", "1">> \o <<Checksum(<<"y", "p", "u", "b", "1">>)>>,
           <<"=">> }

Prefixes == { <<>>, <<"[">>, <<"=", "[">> }
Suffixes == { <<>>, <<"]">>, <<"x">> }

Texts == {p \o b \o s : p \in Prefixes, b \in Bodies, s \in Suffixes}

-----------------------------------------------------------------------------
(* The key-reference and version API, one call at a time *)

NotShown == [set |-> FALSE]

Init ==
    /\ call = [op |-> "none"]
    /\ shown = NotShown
    /\ version = PsbtVersionDefault
    /\ dep = [i \in 1..NumInputs |-> 0]
    /\ proof = [o \in 1..NumOutputs |-> FALSE]
    /\ sigs = [i \in 1..NumInputs |-> {}]
    /\ attempt = [op |-> "none"]

\* format!("{}", r) and format!("{:#}", r)
DisplayCall ==
    \E r \in XpubRefs, alt \in BOOLEAN :
        /\ call' = [op |-> "display", arg |-> r, alt |-> alt, ret |-> Display(r, alt)]
        /\ shown' = NotShown
        /\ UNCHANGED <<version, signVars>>

\* XpubRef::from_str on a text of the caller
ParseText ==
    \E s \in Texts :
        /\ call' = [op |-> "from_str", arg |-> s, ret |-> from_str(s)]
        /\ shown' = NotShown
        /\ UNCHANGED <<version, signVars>>

\* XpubRef::from_str on the text just displayed
ParseShown ==
    /\ call.op = "display"
    /\ call' = [op |-> "from_str", arg |-> call.ret, ret |-> from_str(call.ret)]
    /\ shown' = [set |-> TRUE, ref |-> call.arg, alt |-> call.alt]
    /\ UNCHANGED <<version, signVars>>

\* is_some, fingerprint, identifier and xpubkey of one reference
AccessorsCall ==
    \E r \in XpubRefs :
        /\ call' = [op |-> "accessors", arg |-> r,
                    is_some |-> is_some(r),
                    fingerprint |-> fingerprint(r),
                    identifier |-> identifier(r),
                    xpubkey |-> xpubkey(r)]
        /\ shown' = NotShown
        /\ UNCHANGED <<version, signVars>>

\* XpubRef::default() and PsbtVersion::default()
DefaultCall ==
    /\ call' = [op |-> "default", xpubref |-> XpubRefDefault]
    /\ version' = PsbtVersionDefault
    /\ shown' = NotShown
    /\ UNCHANGED signVars

\* strict decoding of the version word of a container
DecodeVersion ==
    \E n \in 0..MaxVersionWord :
        LET res == PsbtVersionDecode(n)
        IN  /\ call' = [op |-> "decode_version", arg |-> n, ret |-> res]
            /\ version' = IF IsOk(res) THEN res.val ELSE version
            /\ shown' = NotShown
            /\ UNCHANGED signVars

\* strict encoding of the version of the container
EncodeVersion ==
    /\ call' = [op |-> "encode_version", arg |-> version,
                ret |-> PsbtVersionEncode(version)]
    /\ shown' = NotShown
    /\ UNCHANGED <<version, signVars>>

Next ==
    \/ DisplayCall
    \/ ParseText
    \/ ParseShown
    \/ AccessorsCall
    \/ DefaultCall
    \/ DecodeVersion
    \/ EncodeVersion

Spec == Init /\ [][Next]_vars

-----------------------------------------------------------------------------
(* Properties of the key reference and of the version tag *)

Parsed == call.op = "from_str"

\* a frame as the specification describes it: opened and closed
Framed(s, open) == StartsWith(s, open) /\ Len(s) > Len(open) /\ s[Len(s)] = "]"

\* the text inside a closed frame, or the whole text when there is none
Unframe(s) ==
    IF Framed(s, <<"=", "[">>) THEN SubSeq(s, 3, Len(s) - 1)
    ELSE IF Framed(s, <<"[">>) THEN SubSeq(s, 2, Len(s) - 1)
    ELSE s

\* the one fixed format error of from_str
InvalidFormat == "InvalidDerivationPathFormat"

\* C1: parsing the displayed text of a key reference, of any variant,
\* succeeds and gives back that key reference.
C1_RoundTrip ==
    (Parsed /\ shown.set /\ ~shown.alt) => call.ret = Ok(shown.ref)

\* C1 witness: the display of a full extended key was parsed back.
C1_Witness ==
    /\ Parsed /\ shown.set /\ ~shown.alt
    /\ shown.ref.tag = "Xpub"
    /\ call.ret = Ok(shown.ref)

\* C2: on a non-empty text, with its frame stripped, the result is the
\* variant of the first attempt that succeeds, in the order fingerprint,
\* identifier, extended key; a later attempt never replaces the success of
\* an earlier one.
C2_FirstSuccessWins ==
    (Parsed /\ call.arg # <<>>) =>
        LET t == Unframe(call.arg)
            fp == FingerprintFromStr(t)
            id == XKeyIdentifierFromStr(t)
            xp == XpubFromStr(t)
        IN  /\ IsOk(fp) => call.ret = Ok(FromFingerprint(fp.val))
            /\ (~IsOk(fp) /\ IsOk(id)) => call.ret = Ok(FromXKeyIdentifier(id.val))
            /\ (~IsOk(fp) /\ ~IsOk(id) /\ IsOk(xp)) => call.ret = Ok(FromXpub(xp.val))

\* C2 witness: a framed fingerprint text was parsed, the first attempt won.
C2_Witness ==
    /\ Parsed /\ ~shown.set
    /\ Framed(call.arg, <<"=", "[">>)
    /\ IsOk(FingerprintFromStr(Unframe(call.arg)))
    /\ IsOk(call.ret) /\ call.ret.val.tag = "Fingerprint"

\* C3: when no attempt succeeds on a non-empty text, the error returned is
\* the one fixed format error, whatever made the last attempt fail.
C3_FixedFormatError ==
    (/\ Parsed /\ call.arg # <<>>
     /\ ~IsOk(FingerprintFromStr(Unframe(call.arg)))
     /\ ~IsOk(XKeyIdentifierFromStr(Unframe(call.arg)))
     /\ ~IsOk(XpubFromStr(Unframe(call.arg)))
     /\ call.ret.kind = "Err")
        => call.ret.err = InvalidFormat

\* C4: which accessors are defined depends on the variant alone, and each
\* richer variant defines all that a poorer one does.
C4_AccessorAvailability ==
    call.op = "accessors" =>
        /\ call.is_some = (call.arg.tag # "Unknown")
        /\ call.fingerprint.some = (call.arg.tag # "Unknown")
        /\ call.identifier.some = (call.arg.tag \in {"XKeyIdentifier", "Xpub"})
        /\ call.xpubkey.some = (call.arg.tag = "Xpub")
        /\ call.xpubkey.some => call.identifier.some
        /\ call.identifier.some => call.fingerprint.some
        /\ call.fingerprint.some => call.is_some

\* C4 witness: the accessors of an identifier reference were taken.
C4_Witness ==
    /\ call.op = "accessors"
    /\ call.arg.tag = "XKeyIdentifier"
    /\ call.fingerprint.some /\ call.identifier.some /\ ~call.xpubkey.some

\* C5: the fingerprint of an identifier reference is the first four bytes
\* of the identifier; a stored fingerprint and a stored identifier are
\* returned unchanged.
C5_FingerprintOfIdentifier ==
    call.op = "accessors" =>
        /\ call.arg.tag = "XKeyIdentifier" =>
              /\ call.fingerprint = Some(<<call.arg.id[1], call.arg.id[2],
                                          call.arg.id[3], call.arg.id[4]>>)
              /\ call.identifier = Some(call.arg.id)
        /\ call.arg.tag = "Fingerprint" => call.fingerprint = Some(call.arg.fp)

\* C5 witness: the fingerprint of an identifier reference was taken and has
\* four bytes.
C5_Witness ==
    /\ call.op = "accessors"
    /\ call.arg.tag = "XKeyIdentifier"
    /\ call.fingerprint.some
    /\ Len(call.fingerprint.val) = 4
    /\ Len(call.arg.id) = 20

\* C6 as stated: Unknown is displayed as the empty text, any other variant
\* as [value], and in the alternate form as =[value].
C6_AlternateFormEquals ==
    call.op = "display" =>
        IF call.arg.tag = "Unknown" THEN call.ret = <<>>
        ELSE IF call.alt THEN call.ret = <<"=", "[">> \o Fmt(call.arg) \o <<"]">>
        ELSE call.ret = <<"[">> \o Fmt(call.arg) \o <<"]">>

\* C6 amended: Unknown is displayed as the empty text in both forms, any
\* other variant as [value]; the alternate form is framed by [ and ] as
\* well, around the alternate display of the value, and never starts with =.
C6_AlternateFormBrackets ==
    call.op = "display" =>
        IF call.arg.tag = "Unknown" THEN call.ret = <<>>
        ELSE /\ Head(call.ret) = "["
             /\ call.ret[Len(call.ret)] = "]"
             /\ SubSeq(call.ret, 2, Len(call.ret) - 1)
                    = IF call.alt THEN FmtAlt(call.arg) ELSE Fmt(call.arg)

\* C6 witness: a fingerprint reference was displayed in the alternate form.
C6_Witness ==
    /\ call.op = "display"
    /\ call.alt
    /\ call.arg.tag = "Fingerprint"
    /\ Head(call.ret) = "["

\* C7: the version is V0, numerically 0, or V2, numerically 2, and nothing
\* else; the default version is V2 and the default key reference Unknown.
C7_VersionValues ==
    /\ version \in {"V0", "V2"}
    /\ PsbtVersionEncode(version) = (IF version = "V0" THEN 0 ELSE 2)
    /\ call.op = "default" => (version = "V2" /\ call.xpubref = Unknown)
    /\ call.op = "decode_version" => (IsOk(call.ret) <=> call.arg \in {0, 2})
    /\ call.op = "encode_version" => call.ret \in {0, 2}

\* C7 witness: the defaults were taken.
C7_Witness ==
    /\ call.op = "default"
    /\ version = "V2"
    /\ call.xpubref = Unknown

\* C9: from_str returns a key reference or an error for every text; it
\* never aborts.
C9_FromStrTotal ==
    Parsed => call.ret.kind \in {"Ok", "Err"}

\* C10: a text that opens a frame is parsed successfully only if it also
\* closes it.
C10_BalancedFrame ==
    (Parsed /\ (StartsWith(call.arg, <<"[">>) \/ StartsWith(call.arg, <<"=", "[">>))
            /\ IsOk(call.ret))
        => call.arg[Len(call.arg)] = "]"

-----------------------------------------------------------------------------
(* The commit-then-sign protocol of the container (specification sections  *)
(* 4.3, 4.4 and 7; the commit and sign modules are declared in lib.rs).    *)

InputIds == 1..NumInputs
OutputIds == 1..NumOutputs
SignKeys == {"k1"}
SighashFlags == {"ALL", "NONE"}

\* the key of input i is tied to a commitment that has no proof yet
Unresolved(i) == dep[i] # 0 /\ ~proof[dep[i]]

InitSigner ==
    /\ call = [op |-> "none"]
    /\ shown = NotShown
    /\ version = PsbtVersionDefault
    /\ dep \in [InputIds -> {0} \cup OutputIds]
    /\ proof = [o \in OutputIds |-> FALSE]
    /\ sigs = [i \in InputIds |-> {}]
    /\ attempt = [op |-> "none"]

\* the Commitment Engine resolves the commitment of output o, once
ResolveCommitment(o) ==
    IF proof[o]
    THEN /\ attempt' = [op |-> "commit", output |-> o,
                        ret |-> Err("CommitmentAlreadyPresent")]
         /\ UNCHANGED <<dep, proof, sigs>>
    ELSE /\ proof' = [proof EXCEPT ![o] = TRUE]
         /\ attempt' = [op |-> "commit", output |-> o, ret |-> Ok("proof")]
         /\ UNCHANGED <<dep, sigs>>

\* mutant of SignInput: the proof is not looked for, the plain key signs
SignInputUnchecked(i, k, flag) ==
    LET sig == [key |-> k, flag |-> flag, tweaked |-> dep[i] # 0 /\ proof[dep[i]]]
    IN  /\ sigs' = [sigs EXCEPT ![i] = @ \cup {sig}]
        /\ attempt' = [op |-> "sign", input |-> i, unresolved |-> Unresolved(i),
                       ret |-> Ok("signed")]
        /\ UNCHANGED <<dep, proof>>

\* the Signer signs input i with key k under a sighash flag
SignInput(i, k, flag) ==
    LET sig == [key |-> k, flag |-> flag, tweaked |-> dep[i] # 0]
    IN  IF Unresolved(i)
        THEN /\ attempt' = [op |-> "sign", input |-> i, unresolved |-> TRUE,
                            ret |-> Err("MissingCommitmentProof")]
             /\ UNCHANGED <<dep, proof, sigs>>
        ELSE IF \E s \in sigs[i] : s.key = k /\ s # sig
        THEN /\ attempt' = [op |-> "sign", input |-> i, unresolved |-> FALSE,
                            ret |-> Err("SignatureConflict")]
             /\ UNCHANGED <<dep, proof, sigs>>
        ELSE /\ sigs' = [sigs EXCEPT ![i] = @ \cup {sig}]
             /\ attempt' = [op |-> "sign", input |-> i, unresolved |-> FALSE,
                            ret |-> Ok("signed")]
             /\ UNCHANGED <<dep, proof>>

Commit == \E o \in OutputIds : ResolveCommitment(o) /\ UNCHANGED keyVars

Sign ==
    \E i \in InputIds, k \in SignKeys, flag \in SighashFlags :
        SignInput(i, k, flag) /\ UNCHANGED keyVars

NextSigner == Commit \/ Sign

SpecSigner == InitSigner /\ [][NextSigner]_vars

\* C8: signing an input whose key depends on an unresolved commitment fails
\* with MissingCommitmentProof and adds no signature, and no input tied to
\* a commitment ever holds a signature made with the untweaked key.
C8_CommitBeforeSign ==
    /\ \A i \in InputIds : Unresolved(i) => sigs[i] = {}
    /\ \A i \in InputIds : \A s \in sigs[i] : dep[i] # 0 => s.tweaked
    /\ (attempt.op = "sign" /\ attempt.unresolved)
          => attempt.ret = Err("MissingCommitmentProof")

\* C8 witness: a signing attempt on an input with an unresolved commitment
\* was refused and left the input without a signature.
C8_Witness ==
    /\ attempt.op = "sign"
    /\ attempt.unresolved
    /\ attempt.ret = Err("MissingCommitmentProof")
    /\ sigs[attempt.input] = {}

====
